---- MODULE Spec2Model ----
(***************************************************************************)
(* A model of the request protocol types of the `general` crate:           *)
(* Cookies, Headers and Query with their FromValue conversions, and the    *)
(* header-name normaliser (src/src/protocol/request.rs).                   *)
(*                                                                         *)
(* Strings are sequences of characters; a character is a TLA+ string       *)
(* (one ASCII character, or the token "sz" for U+00DF and "fffd" for       *)
(* U+FFFD).  Option<T> is a sequence of length 0 (None) or 1 (Some).       *)
(***************************************************************************)
EXTENDS Integers, Sequences, FiniteSets, TLC

\* ------------------------------------------------------------------ bounds
MaxHdrLen == 4
MaxSegs == 3
MaxPairs == 3
MaxItems == 3
MaxEntries == 2

\* ------------------------------------------------------------------ Option
None == <<>>
Some(v) == <<v>>
IsSome(o) == Len(o) = 1
Unwrap(o) == o[1]

\* ------------------------------------------------------------------ sequences
RECURSIVE Concat(_)
Concat(ss) == IF ss = <<>> THEN <<>> ELSE Head(ss) \o Concat(Tail(ss))

RECURSIVE SeqsUpTo(_, _)
SeqsUpTo(S, n) ==
    IF n = 0 THEN {<<>>}
    ELSE LET shorter == SeqsUpTo(S, n - 1)
         IN shorter \cup {Append(s, x) : s \in {t \in shorter : Len(t) = n - 1}, x \in S}

Range(s) == {s[i] : i \in DOMAIN s}

\* ------------------------------------------------------------------ Value
VNull == [t |-> "Null"]
VBool(b) == [t |-> "Bool", b |-> b]
VI64(i) == [t |-> "I64", i |-> i]
VU64(u) == [t |-> "U64", u |-> u]
VF64(f) == [t |-> "F64", f |-> f]
VString(s) == [t |-> "String", s |-> s]
VArray(items) == [t |-> "Array", items |-> items]
VObject(entries) == [t |-> "Object", entries |-> entries]

\* ------------------------------------------------------------------ Meta
EmptyMeta == [errors |-> <<>>, remarks |-> <<>>, original_length |-> None,
              original_value |-> None]

Err(message, value) == [message |-> message, value |-> value]

add_error(meta, message, value) ==
    [meta EXCEPT !.errors = Append(@, Err(message, value)),
                 !.original_value = IF IsSome(value) THEN value ELSE @]

add_unexpected_value_error(meta, expectation, value) ==
    add_error(meta, "expected " \o expectation, Some(value))

\* Meta::take_original_value, as read by a caller that drops the meta after.
original_value_of(meta) == meta.original_value

merge(self, other) ==
    [errors |-> self.errors \o other.errors,
     remarks |-> self.remarks \o other.remarks,
     original_length |-> IF IsSome(other.original_length) THEN other.original_length
                         ELSE self.original_length,
     original_value |-> IF IsSome(other.original_value) THEN other.original_value
                        ELSE self.original_value]

\* ------------------------------------------------------------------ Annotated
Annotated(value, meta) == [value |-> value, meta |-> meta]
AnnotatedNew(v) == Annotated(Some(v), EmptyMeta)

\* ------------------------------------------------------------------ str
RECURSIVE SplitFrom(_, _, _)
SplitFrom(s, sep, cur) ==
    IF s = <<>> THEN <<cur>>
    ELSE IF Head(s) = sep THEN <<cur>> \o SplitFrom(Tail(s), sep, <<>>)
    ELSE SplitFrom(Tail(s), sep, Append(cur, Head(s)))

split(s, sep) == SplitFrom(s, sep, <<>>)

Lower == <<"a", "b", "c", "d", "e", "f", "g", "h", "i", "j", "k", "l", "m",
           "n", "o", "p", "q", "r", "s", "t", "u", "v", "w", "x", "y", "z">>
Upper == <<"A", "B", "C", "D", "E", "F", "G", "H", "I", "J", "K", "L", "M",
           "N", "O", "P", "Q", "R", "S", "T", "U", "V", "W", "X", "Y", "Z">>

to_uppercase(c) ==
    IF c = "sz" THEN <<"S", "S">>
    ELSE IF \E i \in DOMAIN Lower : Lower[i] = c
         THEN <<Upper[CHOOSE i \in DOMAIN Lower : Lower[i] = c]>>
         ELSE <<c>>

\* ------------------------------------------------------------------ normalize_header
RECURSIVE NormalizeFold(_, _, _)
NormalizeFold(parts, i, all) ==
    IF i > Len(parts) THEN all
    ELSE LET part == parts[i]
             joined == IF i > 1 THEN all \o <<"-">> ELSE all
             capitalized == IF part # <<>> THEN joined \o to_uppercase(Head(part))
                            ELSE joined
             others == IF part # <<>> THEN Tail(part) ELSE <<>>
         IN NormalizeFold(parts, i + 1, capitalized \o others)

to_lowercase(c) ==
    IF \E i \in DOMAIN Upper : Upper[i] = c
    THEN <<Lower[CHOOSE i \in DOMAIN Upper : Upper[i] = c]>>
    ELSE <<c>>

NormalizeLowerRest(key) ==
    LET parts == split(key, "-")
        lowered(p) == Concat([j \in DOMAIN p |-> to_lowercase(p[j])])
    IN Concat([i \in DOMAIN parts |->
                 (IF i > 1 THEN <<"-">> ELSE <<>>)
                 \o (IF parts[i] # <<>>
                     THEN to_uppercase(Head(parts[i])) \o lowered(Tail(parts[i]))
                     ELSE <<>>)])

NormalizeTrailingDash(key) ==
    Concat([i \in DOMAIN split(key, "-") |->
              LET part == split(key, "-")[i]
              IN (IF part # <<>> THEN to_uppercase(Head(part)) \o Tail(part) ELSE <<>>)
                 \o <<"-">>])

normalize_header(key) == NormalizeFold(split(key, "-"), 1, <<>>)

\* ------------------------------------------------------------------ String, tuple, Object
\* The default conversions of crate::processor.
String_from_value(a) ==
    IF ~IsSome(a.value) THEN Annotated(None, a.meta)
    ELSE LET v == Unwrap(a.value)
         IN IF v.t = "String" THEN Annotated(Some(v.s), a.meta)
            ELSE IF v.t = "Null" THEN Annotated(None, a.meta)
            ELSE Annotated(None, add_unexpected_value_error(a.meta, "a string", v))

String_to_value(a) ==
    IF IsSome(a.value) THEN Annotated(Some(VString(Unwrap(a.value))), a.meta)
    ELSE Annotated(None, a.meta)

HeaderTuple_from_value(a) ==
    IF ~IsSome(a.value) THEN Annotated(None, a.meta)
    ELSE LET v == Unwrap(a.value)
         IN IF v.t = "Array"
            THEN IF Len(v.items) # 2
                 THEN Annotated(None, add_unexpected_value_error(a.meta, "tuple", v))
                 ELSE Annotated(Some(<<String_from_value(v.items[1]),
                                       String_from_value(v.items[2])>>), a.meta)
            ELSE IF v.t = "Null" THEN Annotated(None, a.meta)
            ELSE Annotated(None, add_unexpected_value_error(a.meta, "tuple", v))

\* Map::insert: a later insert under the same key replaces the entry.
EmptyMap == <<>>
MapInsert(map, key, entry) ==
    [k \in (DOMAIN map) \cup {key} |-> IF k = key THEN entry ELSE map[k]]

RECURSIVE CollectFrom(_, _, _)
CollectFrom(pairs, i, map) ==
    IF i > Len(pairs) THEN map
    ELSE CollectFrom(pairs, i + 1, MapInsert(map, pairs[i][1], pairs[i][2]))

\* Iterator::collect of (key, entry) pairs into a Map, in iteration order.
Collect(pairs) == CollectFrom(pairs, 1, EmptyMap)

ObjectString_from_value(a) ==
    IF ~IsSome(a.value) THEN Annotated(None, a.meta)
    ELSE LET v == Unwrap(a.value)
             entry(e) == <<e.k, String_from_value(e.v)>>
         IN IF v.t = "Object"
            THEN Annotated(Some(Collect([i \in DOMAIN v.entries |-> entry(v.entries[i])])),
                           a.meta)
            ELSE IF v.t = "Null" THEN Annotated(None, a.meta)
            ELSE Annotated(None, add_unexpected_value_error(a.meta, "object", v))

\* ------------------------------------------------------------------ text helpers
\* The printable ASCII characters, U+0020 to U+007E, in code order ("grave"
\* is U+0060).
Ascii == <<
           " ", "!", "\"", "#", "$", "%", "&", "'", "(", ")", "*", "+",
           ",", "-", ".", "/", "0", "1", "2", "3", "4", "5", "6", "7",
           "8", "9", ":", ";", "<", "=", ">", "?", "@", "A", "B", "C",
           "D", "E", "F", "G", "H", "I", "J", "K", "L", "M", "N", "O",
           "P", "Q", "R", "S", "T", "U", "V", "W", "X", "Y", "Z", "[",
           "\\", "]", "^", "_", "grave", "a", "b", "c", "d", "e", "f", "g",
           "h", "i", "j", "k", "l", "m", "n", "o", "p", "q", "r", "s",
           "t", "u", "v", "w", "x", "y", "z", "{", "|", "}", "~">>

HexDigits == <<"0", "1", "2", "3", "4", "5", "6", "7", "8", "9",
               "a", "b", "c", "d", "e", "f">>
IsHex(c) == \E i \in DOMAIN HexDigits : HexDigits[i] = Head(to_lowercase(c))
HexVal(c) == (CHOOSE i \in DOMAIN HexDigits : HexDigits[i] = Head(to_lowercase(c))) - 1

\* The character of one decoded byte.  "ctl" stands for an ASCII control
\* character and "x80" for a byte above 0x7F that is not part of a
\* well-formed UTF-8 sequence (the inputs hold no escaped multi-byte
\* sequences).
ByteChar(b) ==
    IF b >= 32 /\ b <= 126 THEN Ascii[b - 31]
    ELSE IF b < 128 THEN "ctl" ELSE "x80"

RECURSIVE percent_decode(_)
percent_decode(s) ==
    IF s = <<>> THEN <<>>
    ELSE IF Head(s) = "%" /\ Len(s) >= 3 /\ IsHex(s[2]) /\ IsHex(s[3])
    THEN <<ByteChar(16 * HexVal(s[2]) + HexVal(s[3]))>>
         \o percent_decode(SubSeq(s, 4, Len(s)))
    ELSE <<Head(s)>> \o percent_decode(Tail(s))

IsUtf8(s) == \A i \in DOMAIN s : s[i] # "x80"
decode_utf8_lossy(s) == [i \in DOMAIN s |-> IF s[i] = "x80" THEN "fffd" ELSE s[i]]

Whitespace == {" ", "\t"}
RECURSIVE trim_start(_)
trim_start(s) ==
    IF s # <<>> /\ Head(s) \in Whitespace THEN trim_start(Tail(s)) ELSE s
RECURSIVE trim_end(_)
trim_end(s) ==
    IF s # <<>> /\ s[Len(s)] \in Whitespace THEN trim_end(SubSeq(s, 1, Len(s) - 1))
    ELSE s
trim(s) == trim_end(trim_start(s))

\* str::find: the index of the first occurrence of c, 0 when there is none.
find(s, c) ==
    IF \E i \in DOMAIN s : s[i] = c
    THEN CHOOSE i \in DOMAIN s : s[i] = c /\ \A j \in 1..(i - 1) : s[j] # c
    ELSE 0

\* ------------------------------------------------------------------ cookie::Cookie
MissingPair == "the cookie is missing a name/value pair"
EmptyName == "the cookie's name is empty"
Utf8Error == "decoding the cookie's name or value resulted in invalid UTF-8"

Cookie_parse_encoded(s) ==
    LET key_value == split(s, ";")[1]
        i == find(key_value, "=")
        name == trim(SubSeq(key_value, 1, i - 1))
        value == trim(SubSeq(key_value, i + 1, Len(key_value)))
    IN IF i = 0 THEN [ok |-> FALSE, err |-> MissingPair]
       ELSE IF name = <<>> THEN [ok |-> FALSE, err |-> EmptyName]
       ELSE IF ~IsUtf8(percent_decode(name)) \/ ~IsUtf8(percent_decode(value))
       THEN [ok |-> FALSE, err |-> Utf8Error]
       ELSE [ok |-> TRUE, name |-> percent_decode(name), value |-> percent_decode(value)]

\* ------------------------------------------------------------------ Cookies
CookiesStep(acc, cookie) ==
    IF trim(cookie) = <<>> THEN acc
    ELSE LET parsed == Cookie_parse_encoded(cookie)
         IN IF parsed.ok
            THEN [acc EXCEPT !.cookies = MapInsert(@, parsed.name,
                                                   AnnotatedNew(parsed.value))]
            ELSE [acc EXCEPT !.meta = add_error(@, parsed.err, Some(VString(cookie)))]

\* The loop leaving at the first segment that fails to parse.
RECURSIVE CookiesFoldAbort(_, _, _)
CookiesFoldAbort(segments, i, acc) ==
    IF i > Len(segments) THEN acc
    ELSE IF trim(segments[i]) # <<>> /\ ~Cookie_parse_encoded(segments[i]).ok
    THEN CookiesStep(acc, segments[i])
    ELSE CookiesFoldAbort(segments, i + 1, CookiesStep(acc, segments[i]))

RECURSIVE CookiesFold(_, _, _)
CookiesFold(segments, i, acc) ==
    IF i > Len(segments) THEN acc
    ELSE CookiesFold(segments, i + 1, CookiesStep(acc, segments[i]))

CookiesFromString(value, meta) ==
    LET acc == CookiesFold(split(value, ";"), 1, [cookies |-> EmptyMap, meta |-> meta])
    IN Annotated(Some(acc.cookies), acc.meta)

\* Cookies::from_value building the rejection from a fresh meta.
CookiesRejectFresh(a) ==
    IF ~IsSome(a.value) THEN Annotated(None, a.meta)
    ELSE LET v == Unwrap(a.value)
         IN IF v.t = "String" THEN CookiesFromString(v.s, a.meta)
            ELSE IF v.t = "Object" THEN ObjectString_from_value(a)
            ELSE IF v.t = "Null" THEN Annotated(None, a.meta)
            ELSE Annotated(None, add_unexpected_value_error(EmptyMeta, "cookies", v))

Cookies_from_value(a) ==
    IF ~IsSome(a.value) THEN Annotated(None, a.meta)
    ELSE LET v == Unwrap(a.value)
         IN IF v.t = "String" THEN CookiesFromString(v.s, a.meta)
            ELSE IF v.t = "Object" THEN ObjectString_from_value(a)
            ELSE IF v.t = "Null" THEN Annotated(None, a.meta)
            ELSE Annotated(None, add_unexpected_value_error(a.meta, "cookies", v))

\* ------------------------------------------------------------------ url::form_urlencoded
replace_plus(s) == [i \in DOMAIN s |-> IF s[i] = "+" THEN " " ELSE s[i]]
form_decode(s) == decode_utf8_lossy(percent_decode(replace_plus(s)))

\* The (name, value) pairs the parser yields, in order: the input is cut at
\* every '&', empty pieces are skipped, each piece is cut at its first '='.
form_urlencoded_parse(s) ==
    LET pieces == SelectSeq(split(s, "&"), LAMBDA p : p # <<>>)
        pair(p) == LET i == find(p, "=")
                   IN IF i = 0 THEN <<form_decode(p), <<>>>>
                      ELSE <<form_decode(SubSeq(p, 1, i - 1)),
                             form_decode(SubSeq(p, i + 1, Len(p)))>>
    IN IF s = <<>> THEN <<>> ELSE [i \in DOMAIN pieces |-> pair(pieces[i])]

\* ------------------------------------------------------------------ serde_json
RECURSIVE Decimal(_)
Decimal(n) ==
    IF n < 0 THEN <<"-">> \o Decimal(0 - n)
    ELSE IF n < 10 THEN <<HexDigits[n + 1]>>
    ELSE Decimal(n \div 10) \o <<HexDigits[(n % 10) + 1]>>

JsonQuote(s) ==
    <<"\"">>
    \o Concat([i \in DOMAIN s |->
                 IF s[i] = "\"" THEN <<"\\", "\"">>
                 ELSE IF s[i] = "\\" THEN <<"\\", "\\">>
                 ELSE <<s[i]>>])
    \o <<"\"">>

\* serde_json::to_string of the serde_json::Value an Annotated<Value> converts
\* into: the metas are dropped, an absent value is null.
RECURSIVE to_json_string(_)
to_json_string(a) ==
    IF ~IsSome(a.value) THEN <<"n", "u", "l", "l">>
    ELSE LET v == Unwrap(a.value)
         IN CASE v.t = "Null" -> <<"n", "u", "l", "l">>
              [] v.t = "Bool" -> IF v.b THEN <<"t", "r", "u", "e">>
                                 ELSE <<"f", "a", "l", "s", "e">>
              [] v.t = "I64" -> Decimal(v.i)
              [] v.t = "U64" -> Decimal(v.u)
              [] v.t = "F64" -> v.f
              [] v.t = "String" -> JsonQuote(v.s)
              [] v.t = "Array" ->
                   <<"[">>
                   \o Concat([i \in DOMAIN v.items |->
                                (IF i > 1 THEN <<",">> ELSE <<>>)
                                \o to_json_string(v.items[i])])
                   \o <<"]">>
              [] v.t = "Object" ->
                   <<"{">>
                   \o Concat([i \in DOMAIN v.entries |->
                                (IF i > 1 THEN <<",">> ELSE <<>>)
                                \o JsonQuote(v.entries[i].k) \o <<":">>
                                \o to_json_string(v.entries[i].v)])
                   \o <<"}">>

\* ------------------------------------------------------------------ Query
\* The string arm stripping every leading '?'.
RECURSIVE StripAll(_)
StripAll(v) == IF v # <<>> /\ Head(v) = "?" THEN StripAll(Tail(v)) ELSE v
QueryFromStringStripAll(v, meta) ==
    LET entry(p) == <<p[1], AnnotatedNew(p[2])>>
        pairs == form_urlencoded_parse(StripAll(v))
    IN Annotated(Some(Collect([i \in DOMAIN pairs |-> entry(pairs[i])])), meta)

QueryFromString(v, meta) ==
    LET qs == IF v # <<>> /\ Head(v) = "?" THEN Tail(v) ELSE v
        entry(p) == <<p[1], AnnotatedNew(p[2])>>
        pairs == form_urlencoded_parse(qs)
    IN Annotated(Some(Collect([i \in DOMAIN pairs |-> entry(pairs[i])])), meta)

\* The entry conversion without the legacy arm for arrays and objects.
QueryEntryNoLegacy(e) == <<e.k, String_from_value(e.v)>>

\* The entry conversion serializing every value that is not null, a string too.
QueryEntryAllSerialized(e) ==
    LET v == e.v
    IN IF IsSome(v.value) /\ Unwrap(v.value).t # "Null"
       THEN <<e.k, String_from_value(Annotated(Some(VString(to_json_string(v))), v.meta))>>
       ELSE <<e.k, String_from_value(v)>>

QueryEntry(e) ==
    LET v == e.v
    IN IF IsSome(v.value) /\ Unwrap(v.value).t \in {"String", "Null"}
       THEN <<e.k, String_from_value(v)>>
       ELSE IF IsSome(v.value) /\ Unwrap(v.value).t \in {"Object", "Array"}
       THEN <<e.k, String_from_value(Annotated(Some(VString(to_json_string(v))), v.meta))>>
       ELSE <<e.k, String_from_value(v)>>

QueryFromObject(entries, meta) ==
    Annotated(Some(Collect([i \in DOMAIN entries |-> QueryEntry(entries[i])])), meta)

\* Query::from_value without the arm for Null.
QueryNullRejected(a) ==
    IF ~IsSome(a.value) THEN Annotated(None, a.meta)
    ELSE LET v == Unwrap(a.value)
         IN IF v.t = "String" THEN QueryFromString(v.s, a.meta)
            ELSE IF v.t = "Object" THEN QueryFromObject(v.entries, a.meta)
            ELSE Annotated(None,
                           add_unexpected_value_error(a.meta, "query-string or map", v))

Query_from_value(a) ==
    IF ~IsSome(a.value) THEN Annotated(None, a.meta)
    ELSE LET v == Unwrap(a.value)
         IN IF v.t = "String" THEN QueryFromString(v.s, a.meta)
            ELSE IF v.t = "Object" THEN QueryFromObject(v.entries, a.meta)
            ELSE IF v.t = "Null" THEN Annotated(None, a.meta)
            ELSE Annotated(None,
                           add_unexpected_value_error(a.meta, "query-string or map", v))

\* ------------------------------------------------------------------ Headers
\* The loop body keeping the first entry of a header name (entry().or_insert).
HeadersStepKeepFirst(acc, item) ==
    LET t == HeaderTuple_from_value(item)
        pair_meta == t.meta
    IN IF IsSome(t.value) /\ IsSome(Unwrap(t.value)[1].value)
       THEN LET key == Unwrap(Unwrap(t.value)[1].value)
                value == Unwrap(t.value)[2]
            IN IF normalize_header(key) \in DOMAIN acc.rv THEN acc
               ELSE [acc EXCEPT !.rv = MapInsert(@, normalize_header(key),
                                                 Annotated(value.value,
                                                           merge(pair_meta, value.meta)))]
       ELSE IF IsSome(t.value)
       THEN LET key_meta == Unwrap(t.value)[1].meta
                value == String_to_value(Unwrap(t.value)[2])
                key == original_value_of(key_meta)
                val == IF IsSome(value.value) THEN value.value
                       ELSE original_value_of(value.meta)
            IN IF IsSome(key) /\ IsSome(val)
               THEN [acc EXCEPT !.bad_items =
                        Append(@, AnnotatedNew(VArray(<<AnnotatedNew(Unwrap(key)),
                                                        AnnotatedNew(Unwrap(val))>>)))]
               ELSE acc
       ELSE IF IsSome(original_value_of(pair_meta))
            THEN [acc EXCEPT !.bad_items =
                     Append(@, AnnotatedNew(Unwrap(original_value_of(pair_meta))))]
            ELSE acc

\* The loop body recording nothing for an element that is no pair.
HeadersStepPairsOnly(acc, item) ==
    LET t == HeaderTuple_from_value(item)
        pair_meta == t.meta
    IN IF IsSome(t.value) /\ IsSome(Unwrap(t.value)[1].value)
       THEN LET key == Unwrap(Unwrap(t.value)[1].value)
                value == Unwrap(t.value)[2]
            IN [acc EXCEPT !.rv = MapInsert(@, normalize_header(key),
                                            Annotated(value.value,
                                                      merge(pair_meta, value.meta)))]
       ELSE IF IsSome(t.value)
       THEN LET key_meta == Unwrap(t.value)[1].meta
                value == String_to_value(Unwrap(t.value)[2])
                key == original_value_of(key_meta)
                val == IF IsSome(value.value) THEN value.value
                       ELSE original_value_of(value.meta)
            IN IF IsSome(key) /\ IsSome(val)
               THEN [acc EXCEPT !.bad_items =
                        Append(@, AnnotatedNew(VArray(<<AnnotatedNew(Unwrap(key)),
                                                        AnnotatedNew(Unwrap(val))>>)))]
               ELSE acc
       ELSE acc

HeadersStep(acc, item) ==
    LET t == HeaderTuple_from_value(item)
        pair_meta == t.meta
    IN IF IsSome(t.value) /\ IsSome(Unwrap(t.value)[1].value)
       THEN LET key == Unwrap(Unwrap(t.value)[1].value)
                value == Unwrap(t.value)[2]
            IN [acc EXCEPT !.rv = MapInsert(@, normalize_header(key),
                                            Annotated(value.value,
                                                      merge(pair_meta, value.meta)))]
       ELSE IF IsSome(t.value)
       THEN LET key_meta == Unwrap(t.value)[1].meta
                value == String_to_value(Unwrap(t.value)[2])
                key == original_value_of(key_meta)
                val == IF IsSome(value.value) THEN value.value
                       ELSE original_value_of(value.meta)
            IN IF IsSome(key) /\ IsSome(val)
               THEN [acc EXCEPT !.bad_items =
                        Append(@, AnnotatedNew(VArray(<<AnnotatedNew(Unwrap(key)),
                                                        AnnotatedNew(Unwrap(val))>>)))]
               ELSE acc
       ELSE IF IsSome(original_value_of(pair_meta))
            THEN [acc EXCEPT !.bad_items =
                     Append(@, AnnotatedNew(Unwrap(original_value_of(pair_meta))))]
            ELSE acc

RECURSIVE HeadersFold(_, _, _)
HeadersFold(items, i, acc) ==
    IF i > Len(items) THEN acc
    ELSE HeadersFold(items, i + 1, HeadersStep(acc, items[i]))

\* The array arm attaching the error whether or not anything was rejected.
HeadersFromArrayAlwaysError(items, meta) ==
    LET acc == HeadersFold(items, 1, [rv |-> EmptyMap, bad_items |-> <<>>])
    IN Annotated(Some(acc.rv),
                 add_error(meta, "invalid non-header values",
                           IF acc.bad_items = <<>> THEN None
                           ELSE Some(VArray(acc.bad_items))))

HeadersFromArray(items, meta) ==
    LET acc == HeadersFold(items, 1, [rv |-> EmptyMap, bad_items |-> <<>>])
    IN Annotated(Some(acc.rv),
                 IF acc.bad_items # <<>>
                 THEN add_error(meta, "invalid non-header values",
                                Some(VArray(acc.bad_items)))
                 ELSE meta)

\* The object arm keeping the keys as they came.
HeadersFromObjectRawKeys(entries, meta) ==
    LET entry(e) == <<e.k, String_from_value(e.v)>>
    IN Annotated(Some(Collect([i \in DOMAIN entries |-> entry(entries[i])])), meta)

HeadersFromObject(entries, meta) ==
    LET entry(e) == <<normalize_header(e.k), String_from_value(e.v)>>
    IN Annotated(Some(Collect([i \in DOMAIN entries |-> entry(entries[i])])), meta)

Headers_from_value(a) ==
    IF IsSome(a.value) /\ Unwrap(a.value).t = "Array"
    THEN HeadersFromArray(Unwrap(a.value).items, a.meta)
    ELSE IF IsSome(a.value) /\ Unwrap(a.value).t = "Object"
    THEN HeadersFromObject(Unwrap(a.value).entries, a.meta)
    ELSE ObjectString_from_value(a)

\* ------------------------------------------------------------------ records
\* The derived FromValue of Request, Frame and Stacktrace, from the field
\* declarations of the structs: name, JSON key (the `field` attribute where
\* given), type, and the `required` and `nonempty` attributes.
Field(name, key, kind, required, nonempty) ==
    [name |-> name, key |-> key, kind |-> kind, required |-> required,
     nonempty |-> nonempty]
Optional(name, key, kind) == Field(name, key, kind, FALSE, FALSE)

RequestFields ==
    <<Optional("url", <<"u", "r", "l">>, "String"),
      Optional("method", <<"m", "e", "t", "h", "o", "d">>, "String"),
      Optional("data", <<"d", "a", "t", "a">>, "Value"),
      Optional("query_string", <<"q", "u", "e", "r", "y", "_", "s", "t", "r", "i", "n", "g">>, "Query"),
      Optional("fragment", <<"f", "r", "a", "g", "m", "e", "n", "t">>, "String"),
      Optional("cookies", <<"c", "o", "o", "k", "i", "e", "s">>, "Cookies"),
      Optional("headers", <<"h", "e", "a", "d", "e", "r", "s">>, "Headers"),
      Optional("env", <<"e", "n", "v">>, "Object<Value>"),
      Optional("inferred_content_type", <<"i", "n", "f", "e", "r", "r", "e", "d", "_", "c", "o", "n", "t", "e", "n", "t", "_", "t", "y", "p", "e">>, "String")>>

\* Frame with `line` read from its own name, the `field` attribute left out.
FrameFieldsUnaliased ==
    <<Optional("function", <<"f", "u", "n", "c", "t", "i", "o", "n">>, "String"),
      Optional("symbol", <<"s", "y", "m", "b", "o", "l">>, "String"),
      Optional("module", <<"m", "o", "d", "u", "l", "e">>, "String"),
      Optional("package", <<"p", "a", "c", "k", "a", "g", "e">>, "String"),
      Optional("filename", <<"f", "i", "l", "e", "n", "a", "m", "e">>, "String"),
      Optional("abs_path", <<"a", "b", "s", "_", "p", "a", "t", "h">>, "String"),
      Optional("line", <<"l", "i", "n", "e">>, "u64"),
      Optional("column", <<"c", "o", "l", "n", "o">>, "u64"),
      Optional("pre_lines", <<"p", "r", "e", "_", "c", "o", "n", "t", "e", "x", "t">>, "Array<String>"),
      Optional("current_line", <<"c", "o", "n", "t", "e", "x", "t", "_", "l", "i", "n", "e">>, "String"),
      Optional("post_lines", <<"p", "o", "s", "t", "_", "c", "o", "n", "t", "e", "x", "t">>, "Array<String>"),
      Optional("in_app", <<"i", "n", "_", "a", "p", "p">>, "bool"),
      Optional("vars", <<"v", "a", "r", "s">>, "Object<Value>"),
      Optional("image_addr", <<"i", "m", "a", "g", "e", "_", "a", "d", "d", "r">>, "Addr"),
      Optional("instruction_addr", <<"i", "n", "s", "t", "r", "u", "c", "t", "i", "o", "n", "_", "a", "d", "d", "r">>, "Addr"),
      Optional("symbol_addr", <<"s", "y", "m", "b", "o", "l", "_", "a", "d", "d", "r">>, "Addr"),
      Optional("trust", <<"t", "r", "u", "s", "t">>, "String")>>

FrameFields ==
    <<Optional("function", <<"f", "u", "n", "c", "t", "i", "o", "n">>, "String"),
      Optional("symbol", <<"s", "y", "m", "b", "o", "l">>, "String"),
      Optional("module", <<"m", "o", "d", "u", "l", "e">>, "String"),
      Optional("package", <<"p", "a", "c", "k", "a", "g", "e">>, "String"),
      Optional("filename", <<"f", "i", "l", "e", "n", "a", "m", "e">>, "String"),
      Optional("abs_path", <<"a", "b", "s", "_", "p", "a", "t", "h">>, "String"),
      Optional("line", <<"l", "i", "n", "e", "n", "o">>, "u64"),
      Optional("column", <<"c", "o", "l", "n", "o">>, "u64"),
      Optional("pre_lines", <<"p", "r", "e", "_", "c", "o", "n", "t", "e", "x", "t">>, "Array<String>"),
      Optional("current_line", <<"c", "o", "n", "t", "e", "x", "t", "_", "l", "i", "n", "e">>, "String"),
      Optional("post_lines", <<"p", "o", "s", "t", "_", "c", "o", "n", "t", "e", "x", "t">>, "Array<String>"),
      Optional("in_app", <<"i", "n", "_", "a", "p", "p">>, "bool"),
      Optional("vars", <<"v", "a", "r", "s">>, "Object<Value>"),
      Optional("image_addr", <<"i", "m", "a", "g", "e", "_", "a", "d", "d", "r">>, "Addr"),
      Optional("instruction_addr", <<"i", "n", "s", "t", "r", "u", "c", "t", "i", "o", "n", "_", "a", "d", "d", "r">>, "Addr"),
      Optional("symbol_addr", <<"s", "y", "m", "b", "o", "l", "_", "a", "d", "d", "r">>, "Addr"),
      Optional("trust", <<"t", "r", "u", "s", "t">>, "String")>>

\* Stacktrace with `frames` declared without `required` and `nonempty`.
StacktraceFieldsOptionalFrames ==
    <<Optional("frames", <<"f", "r", "a", "m", "e", "s">>, "Array<Frame>"),
      Optional("registers", <<"r", "e", "g", "i", "s", "t", "e", "r", "s">>, "Object<RegVal>")>>

StacktraceFields ==
    <<Field("frames", <<"f", "r", "a", "m", "e", "s">>, "Array<Frame>", TRUE, TRUE),
      Optional("registers", <<"r", "e", "g", "i", "s", "t", "e", "r", "s">>, "Object<RegVal>")>>

FieldsOf(record) ==
    CASE record = "Request" -> RequestFields
      [] record = "Frame" -> FrameFields
      [] record = "Stacktrace" -> StacktraceFields

\* The default conversions of the primitive field types.
U64_from_value(a) ==
    IF ~IsSome(a.value) THEN Annotated(None, a.meta)
    ELSE LET v == Unwrap(a.value)
         IN IF v.t = "U64" THEN Annotated(Some(v.u), a.meta)
            ELSE IF v.t = "I64" /\ v.i >= 0 THEN Annotated(Some(v.i), a.meta)
            ELSE IF v.t = "Null" THEN Annotated(None, a.meta)
            ELSE Annotated(None, add_unexpected_value_error(a.meta, "u64", v))

Bool_from_value(a) ==
    IF ~IsSome(a.value) THEN Annotated(None, a.meta)
    ELSE LET v == Unwrap(a.value)
         IN IF v.t = "Bool" THEN Annotated(Some(v.b), a.meta)
            ELSE IF v.t = "Null" THEN Annotated(None, a.meta)
            ELSE Annotated(None, add_unexpected_value_error(a.meta, "bool", v))

\* Value::from_value: the value as it is.
Value_from_value(a) == a

RECURSIVE HexNumber(_)
HexNumber(s) == IF s = <<>> THEN 0 ELSE HexNumber(SubSeq(s, 1, Len(s) - 1)) * 16 + HexVal(s[Len(s)])
RECURSIVE DecimalNumber(_)
DecimalNumber(s) ==
    IF s = <<>> THEN 0 ELSE DecimalNumber(SubSeq(s, 1, Len(s) - 1)) * 10 + HexVal(s[Len(s)])
IsHexString(s) ==
    /\ Len(s) > 2
    /\ s[1] = "0"
    /\ s[2] = "x"
    /\ \A i \in 3..Len(s) : IsHex(s[i])
IsDecimalString(s) ==
    /\ s # <<>>
    /\ \A i \in DOMAIN s : IsHex(s[i]) /\ HexVal(s[i]) < 10
    /\ (Len(s) > 1 => s[1] # "0")

\* Addr and RegVal: a number, or a string holding a hex or decimal number.
Addr_from_value(a) ==
    IF ~IsSome(a.value) THEN Annotated(None, a.meta)
    ELSE LET v == Unwrap(a.value)
         IN IF v.t = "U64" THEN Annotated(Some(v.u), a.meta)
            ELSE IF v.t = "I64" /\ v.i >= 0 THEN Annotated(Some(v.i), a.meta)
            ELSE IF v.t = "String" /\ IsHexString(v.s)
            THEN Annotated(Some(HexNumber(SubSeq(v.s, 3, Len(v.s)))), a.meta)
            ELSE IF v.t = "String" /\ IsDecimalString(v.s)
            THEN Annotated(Some(DecimalNumber(v.s)), a.meta)
            ELSE IF v.t = "Null" THEN Annotated(None, a.meta)
            ELSE Annotated(None, add_unexpected_value_error(a.meta, "Addr", v))

\* obj.remove(key), a missing key giving the empty Annotated.
Lookup(entries, key) ==
    IF \E i \in DOMAIN entries : entries[i].k = key
    THEN entries[CHOOSE i \in DOMAIN entries : entries[i].k = key].v
    ELSE Annotated(None, EmptyMeta)

\* required: a field left without value and without error gets the error
\* "value required", with no value captured.
require_value(a) ==
    IF ~IsSome(a.value) /\ a.meta.errors = <<>>
    THEN Annotated(None, add_error(a.meta, "value required", None))
    ELSE a

\* nonempty: an empty collection counts as the value missing.
require_nonempty(a) ==
    IF IsSome(a.value) /\ Unwrap(a.value) = <<>>
    THEN require_value(Annotated(None, a.meta))
    ELSE a

\* additional_properties: the entries under keys that are no field's.
Remaining(entries, fields) ==
    LET rest == SelectSeq(entries,
                          LAMBDA e : \A i \in DOMAIN fields : fields[i].key # e.k)
    IN Collect([i \in DOMAIN rest |-> <<rest[i].k, rest[i].v>>])

RECURSIVE Record_from_value(_, _)
RECURSIVE FieldFromValue(_, _)
FieldFromValue(kind, a) ==
    CASE kind = "String" -> String_from_value(a)
      [] kind = "u64" -> U64_from_value(a)
      [] kind = "bool" -> Bool_from_value(a)
      [] kind = "Value" -> Value_from_value(a)
      [] kind = "Addr" -> Addr_from_value(a)
      [] kind = "Query" -> Query_from_value(a)
      [] kind = "Cookies" -> Cookies_from_value(a)
      [] kind = "Headers" -> Headers_from_value(a)
      [] kind \in {"Array<String>", "Array<Frame>"} ->
            IF ~IsSome(a.value) \/ Unwrap(a.value).t = "Null"
            THEN Annotated(None, a.meta)
            ELSE IF Unwrap(a.value).t = "Array"
            THEN LET items == Unwrap(a.value).items
                 IN Annotated(Some([i \in DOMAIN items |->
                                      IF kind = "Array<Frame>"
                                      THEN Record_from_value("Frame", items[i])
                                      ELSE String_from_value(items[i])]),
                              a.meta)
            ELSE Annotated(None,
                           add_unexpected_value_error(a.meta, "array", Unwrap(a.value)))
      [] kind \in {"Object<Value>", "Object<RegVal>"} ->
            IF ~IsSome(a.value) \/ Unwrap(a.value).t = "Null"
            THEN Annotated(None, a.meta)
            ELSE IF Unwrap(a.value).t = "Object"
            THEN LET entries == Unwrap(a.value).entries
                 IN Annotated(Some(Collect([i \in DOMAIN entries |->
                                      <<entries[i].k,
                                        IF kind = "Object<RegVal>"
                                        THEN Addr_from_value(entries[i].v)
                                        ELSE Value_from_value(entries[i].v)>>])),
                              a.meta)
            ELSE Annotated(None,
                           add_unexpected_value_error(a.meta, "object", Unwrap(a.value)))

\* One field of a record: its entry converted, then the attributes applied.
RecordField(f, entries) ==
    LET converted == FieldFromValue(f.kind, Lookup(entries, f.key))
        filled == IF f.nonempty THEN require_nonempty(converted) ELSE converted
    IN IF f.required THEN require_value(filled) ELSE filled

Record_from_value(record, a) ==
    IF ~IsSome(a.value) \/ Unwrap(a.value).t = "Null" THEN Annotated(None, a.meta)
    ELSE IF Unwrap(a.value).t = "Object"
    THEN LET entries == Unwrap(a.value).entries
             fields == FieldsOf(record)
             names == {fields[i].name : i \in DOMAIN fields}
             at(n) == fields[CHOOSE i \in DOMAIN fields : fields[i].name = n]
         IN Annotated(Some([fields |-> [n \in names |-> RecordField(at(n), entries)],
                            other |-> Remaining(entries, fields)]),
                      a.meta)
    ELSE Annotated(None, add_unexpected_value_error(a.meta, record, Unwrap(a.value)))

Request_from_value(a) == Record_from_value("Request", a)
Frame_from_value(a) == Record_from_value("Frame", a)
Stacktrace_from_value(a) == Record_from_value("Stacktrace", a)

\* ------------------------------------------------------------------ inputs
HdrAlphabet == {"-", "a", "A", "1", "sz"}
ExampleNames == {<<"-", "o", "t", "h", "e", "r", "-">>,
                 <<"x", "-", "s", "e", "n", "t", "r", "y">>,
                 <<"a", "c", "c", "e", "p", "t">>}
HeaderNames == SeqsUpTo(HdrAlphabet, MaxHdrLen) \cup ExampleNames

PriorMeta == [errors |-> <<Err("prior error", Some(VI64(7)))>>,
              remarks |-> <<"truncated">>,
              original_length |-> Some(9),
              original_value |-> Some(VI64(7))]
RemarkMeta == [EmptyMeta EXCEPT !.remarks = <<"stripped">>]
Metas == {EmptyMeta, PriorMeta}

Str(s) == AnnotatedNew(VString(s))
I64(i) == AnnotatedNew(VI64(i))
Arr(items) == AnnotatedNew(VArray(items))
Entry(k, v) == [k |-> k, v |-> v]
Obj(entries) == AnnotatedNew(VObject(entries))

Scalars == {VBool(TRUE), VI64(42), VU64(64), VF64(<<"1", ".", "5">>),
            VArray(<<I64(1)>>)}

\* Cookie header strings: up to MaxSegs segments joined by ';'.
CookieSegs == {<<"a", "=", "b">>,
               <<" ", "a", "=", "1", " ">>,
               <<" ">>,
               <<>>,
               <<"a", "b">>,
               <<"=", "b">>,
               <<"c", "=", "%", "4", "a">>,
               <<"b", "=", "%", "f", "f">>}
RECURSIVE JoinWith(_, _)
JoinWith(segments, sep) ==
    IF segments = <<>> THEN <<>>
    ELSE IF Len(segments) = 1 THEN segments[1]
    ELSE segments[1] \o <<sep>> \o JoinWith(Tail(segments), sep)
CookieStrings == {JoinWith(segs, ";") : segs \in SeqsUpTo(CookieSegs, MaxSegs)}

\* Query strings: zero to two '?', then up to MaxPairs pieces joined by '&'.
QueryPairs == {<<"a", "=", "b">>,
               <<"a", "=", "c">>,
               <<"b">>,
               <<"a", "+", "=", "%", "4", "a">>,
               <<>>,
               <<"%", "f", "f", "=", "1">>}
QueryExamples == {<<"f", "o", "o", "=", "b", "a", "r">>,
                  <<"?", "f", "o", "o", "=", "b", "a", "r">>,
                  <<"f", "o", "o", "=", "b", "a", "r", "&", "b", "a", "z", "=", "4", "2">>}
QueryStrings ==
    {prefix \o JoinWith(pieces, "&") :
        prefix \in {<<>>, <<"?">>, <<"?", "?">>},
        pieces \in SeqsUpTo(QueryPairs, MaxPairs)}
    \cup QueryExamples

\* Header arrays: up to MaxItems elements.
ValueMeta == [EmptyMeta EXCEPT !.remarks = <<"value remark">>,
                                !.original_length = Some(3)]
HdrElems == {Arr(<<Str(<<"a">>), Str(<<"x">>)>>),
             Arr(<<Str(<<"A">>), Str(<<"y">>)>>),
             Arr(<<Str(<<"a", "-", "b">>), I64(42)>>),
             Arr(<<I64(1), I64(2)>>),
             Arr(<<I64(1), Str(<<"x">>)>>),
             Arr(<<I64(1), AnnotatedNew(VNull)>>),
             Arr(<<Str(<<"a">>), Str(<<"b">>), Str(<<"c">>)>>),
             I64(23),
             AnnotatedNew(VNull),
             Arr(<<AnnotatedNew(VNull), Str(<<"x">>)>>),
             Annotated(Some(VArray(<<Str(<<"b">>),
                                     Annotated(Some(VString(<<"z">>)), ValueMeta)>>)),
                       PriorMeta)}
HdrExample ==
    <<Arr(<<Str(<<"a", "c", "c", "e", "p", "t">>), Str(<<"j", "s", "o", "n">>)>>),
      Arr(<<Str(<<"w", "h", "a", "t", "e", "v", "e", "r">>), I64(42)>>),
      Arr(<<I64(1), I64(2)>>),
      Arr(<<Str(<<"a">>), Str(<<"b">>), Str(<<"c">>)>>),
      I64(23)>>
HeaderArrays == SeqsUpTo(HdrElems, MaxItems) \cup {HdrExample}

\* Objects: up to MaxEntries entries under distinct keys.
ObjKeys == {<<"a">>, <<"A">>, <<"x", "-", "y">>}
ObjVals == {Str(<<"v">>),
            Annotated(Some(VString(<<"w">>)), RemarkMeta),
            AnnotatedNew(VNull),
            Annotated(Some(VNull), RemarkMeta),
            I64(42),
            AnnotatedNew(VBool(FALSE)),
            AnnotatedNew(VF64(<<"1", ".", "5">>)),
            Obj(<<Entry(<<"a">>, I64(42))>>),
            Annotated(Some(VArray(<<I64(1), Str(<<"x", "\"">>), AnnotatedNew(VNull)>>)),
                      RemarkMeta)}
ObjExamples ==
    {<<Entry(<<"-", "o", "t", "h", "e", "r", "-">>, Str(<<"h">>)),
       Entry(<<"a", "c", "c", "e", "p", "t">>, Str(<<"j">>)),
       Entry(<<"x", "-", "s", "e", "n", "t", "r", "y">>, Str(<<"8">>))>>,
     <<Entry(<<"f", "o", "o">>, Str(<<"b", "a", "r">>)),
       Entry(<<"b", "a", "z">>, Obj(<<Entry(<<"a">>, I64(42))>>))>>}
HasDistinctKeys(entries) ==
    \A i, j \in DOMAIN entries : entries[i].k = entries[j].k => i = j
Objects ==
    {entries \in SeqsUpTo({Entry(k, v) : k \in ObjKeys, v \in ObjVals}, MaxEntries) :
        HasDistinctKeys(entries)}
    \cup ObjExamples

InputValues ==
    {VString(s) : s \in HeaderNames \cup CookieStrings \cup QueryStrings}
    \cup {VArray(items) : items \in HeaderArrays}
    \cup {VObject(entries) : entries \in Objects}
    \cup Scalars \cup {VNull}

Inputs == {Annotated(Some(v), m) : v \in InputValues, m \in Metas}
          \cup {Annotated(None, m) : m \in Metas}

\* ------------------------------------------------------------------ state
\* input: the Annotated<Value> handed to a conversion; op: the conversion that
\* ran ("none" before); output: what it returned.
VARIABLES input, op, output
vars == <<input, op, output>>

Init ==
    /\ input \in Inputs
    /\ op = "none"
    /\ output = None

NormalizeHeader ==
    /\ op = "none"
    /\ IsSome(input.value)
    /\ Unwrap(input.value).t = "String"
    /\ op' = "normalize_header"
    /\ output' = normalize_header(Unwrap(input.value).s)
    /\ UNCHANGED input

CookiesFromValue ==
    /\ op = "none"
    /\ op' = "Cookies"
    /\ output' = Cookies_from_value(input)
    /\ UNCHANGED input

HeadersFromValue ==
    /\ op = "none"
    /\ op' = "Headers"
    /\ output' = Headers_from_value(input)
    /\ UNCHANGED input

QueryFromValue ==
    /\ op = "none"
    /\ op' = "Query"
    /\ output' = Query_from_value(input)
    /\ UNCHANGED input

Next ==
    \/ NormalizeHeader
    \/ CookiesFromValue
    \/ HeadersFromValue
    \/ QueryFromValue

Spec == Init /\ [][Next]_vars

\* ------------------------------------------------------------------ ToValue of the containers
\* The derived ToValue of a newtype over Object<String>: the map becomes a
\* Value::Object, entry by entry; `order` is the order in which the map hands
\* out its keys.
ObjectString_to_value(map, order) ==
    VObject([i \in DOMAIN order |-> Entry(order[i], String_to_value(map[order[i]]))])

Container_to_value(a, order) ==
    IF IsSome(a.value)
    THEN Annotated(Some(ObjectString_to_value(Unwrap(a.value), order)), a.meta)
    ELSE Annotated(None, a.meta)

\* The orders in which the keys of a map can be handed out.
KeyOrders(map) ==
    {o \in SeqsUpTo(DOMAIN map, Cardinality(DOMAIN map)) :
        /\ Len(o) = Cardinality(DOMAIN map)
        /\ \A i, j \in DOMAIN o : o[i] = o[j] => i = j}

\* Containers as a program builds them: up to MaxEntries entries, each a
\* string with empty meta.
ContainerKeys == {<<"a">>, <<"A">>, <<"x", "-", "y">>, <<"X", "-", "Y">>, <<"A", "a">>}
ContainerVals == {AnnotatedNew(<<"1">>), AnnotatedNew(<<"a", "=", "b">>)}
Containers ==
    {Collect(pairs) :
        pairs \in {q \in SeqsUpTo({<<k, v>> : k \in ContainerKeys, v \in ContainerVals},
                                   MaxEntries) :
                      \A i, j \in DOMAIN q : q[i][1] = q[j][1] => i = j}}

\* Here input is the Annotated container, output its value after to_value
\* and the container read back after from_value.
InitRoundTrip ==
    /\ input \in {AnnotatedNew(c) : c \in Containers}
    /\ op = "none"
    /\ output = None

HeadersToValue ==
    /\ op = "none"
    /\ \E order \in KeyOrders(Unwrap(input.value)) :
          output' = Container_to_value(input, order)
    /\ op' = "Headers::to_value"
    /\ UNCHANGED input

CookiesToValue ==
    /\ op = "none"
    /\ \E order \in KeyOrders(Unwrap(input.value)) :
          output' = Container_to_value(input, order)
    /\ op' = "Cookies::to_value"
    /\ UNCHANGED input

QueryToValue ==
    /\ op = "none"
    /\ \E order \in KeyOrders(Unwrap(input.value)) :
          output' = Container_to_value(input, order)
    /\ op' = "Query::to_value"
    /\ UNCHANGED input

HeadersReadBack ==
    /\ op = "Headers::to_value"
    /\ op' = "Headers::from_value"
    /\ output' = Headers_from_value(output)
    /\ UNCHANGED input

CookiesReadBack ==
    /\ op = "Cookies::to_value"
    /\ op' = "Cookies::from_value"
    /\ output' = Cookies_from_value(output)
    /\ UNCHANGED input

QueryReadBack ==
    /\ op = "Query::to_value"
    /\ op' = "Query::from_value"
    /\ output' = Query_from_value(output)
    /\ UNCHANGED input

NextRoundTrip ==
    \/ HeadersToValue
    \/ CookiesToValue
    \/ QueryToValue
    \/ HeadersReadBack
    \/ CookiesReadBack
    \/ QueryReadBack

SpecRoundTrip == InitRoundTrip /\ [][NextRoundTrip]_vars

\* ------------------------------------------------------------------ records: inputs and steps
U64(u) == AnnotatedNew(VU64(u))
RecordEntries ==
    {Entry(<<"u", "r", "l">>, Str(<<"u">>)),
     Entry(<<"u", "r", "l">>, I64(1)),
     Entry(<<"m", "e", "t", "h", "o", "d">>, Str(<<"G", "E", "T">>)),
     Entry(<<"d", "a", "t", "a">>, Obj(<<Entry(<<"a">>, I64(1))>>)),
     Entry(<<"q", "u", "e", "r", "y", "_", "s", "t", "r", "i", "n", "g">>, Str(<<"a", "=", "b">>)),
     Entry(<<"c", "o", "o", "k", "i", "e", "s">>, Str(<<"a", "=", "b">>)),
     Entry(<<"h", "e", "a", "d", "e", "r", "s">>, Obj(<<Entry(<<"a">>, Str(<<"v">>))>>)),
     Entry(<<"f", "u", "n", "c", "t", "i", "o", "n">>, Str(<<"f">>)),
     Entry(<<"l", "i", "n", "e", "n", "o">>, U64(3)),
     Entry(<<"l", "i", "n", "e">>, U64(3)),
     Entry(<<"i", "n", "_", "a", "p", "p">>, AnnotatedNew(VBool(TRUE))),
     Entry(<<"i", "m", "a", "g", "e", "_", "a", "d", "d", "r">>, Str(<<"0", "x", "1", "f">>)),
     Entry(<<"f", "r", "a", "m", "e", "s">>, Arr(<<Obj(<<>>)>>)),
     Entry(<<"f", "r", "a", "m", "e", "s">>, Arr(<<Obj(<<Entry(<<"l", "i", "n", "e", "n", "o">>, U64(3))>>), Obj(<<>>)>>)),
     Entry(<<"f", "r", "a", "m", "e", "s">>, Arr(<<>>)),
     Entry(<<"r", "e", "g", "i", "s", "t", "e", "r", "s">>, Obj(<<Entry(<<"p", "c">>, Str(<<"0", "x", "1", "f">>))>>)),
     Entry(<<"o", "t", "h", "e", "r">>, Str(<<"v">>))}
RecordObjects ==
    {entries \in SeqsUpTo(RecordEntries, MaxEntries) : HasDistinctKeys(entries)}
RecordInputs ==
    {Obj(entries) : entries \in RecordObjects}
    \cup {Annotated(Some(VObject(<<>>)), PriorMeta),
          Annotated(None, EmptyMeta), AnnotatedNew(VNull), I64(42)}

InitRecords ==
    /\ input \in RecordInputs
    /\ op = "none"
    /\ output = None

RequestFromValue ==
    /\ op = "none"
    /\ op' = "Request"
    /\ output' = Request_from_value(input)
    /\ UNCHANGED input

FrameFromValue ==
    /\ op = "none"
    /\ op' = "Frame"
    /\ output' = Frame_from_value(input)
    /\ UNCHANGED input

StacktraceFromValue ==
    /\ op = "none"
    /\ op' = "Stacktrace"
    /\ output' = Stacktrace_from_value(input)
    /\ UNCHANGED input

NextRecords ==
    \/ RequestFromValue
    \/ FrameFromValue
    \/ StacktraceFromValue

SpecRecords == InitRecords /\ [][NextRecords]_vars

\* ------------------------------------------------------------------ claims
Normalized == op = "normalize_header"
InputString == Unwrap(input.value).s

DashPositions(s) == {i \in DOMAIN s : s[i] = "-"}
Expands(c) == Len(to_uppercase(c)) # 1

\* The reference of C4: split on '-', uppercase the first character of each
\* segment, keep the others, rejoin with '-'.
Capitalize(segment) ==
    IF segment = <<>> THEN <<>>
    ELSE to_uppercase(segment[1]) \o SubSeq(segment, 2, Len(segment))

RECURSIVE Join(_, _)
Join(segments, sep) ==
    IF Len(segments) = 1 THEN segments[1]
    ELSE segments[1] \o <<sep>> \o Join(Tail(segments), sep)

Reference(s) ==
    LET segments == split(s, "-")
    IN Join([i \in DOMAIN segments |-> Capitalize(segments[i])], "-")

\* C1: Cookies::from_value and Query::from_value on Annotated(Some(v), m) with
\* v a bool, I64, U64, F64 or array return no value and the meta m with
\* exactly one error appended: "expected cookies" (Cookies) or
\* "expected query-string or map" (Query), capturing v itself.
Mismatched ==
    /\ IsSome(input.value)
    /\ Unwrap(input.value).t \in {"Bool", "I64", "U64", "F64", "Array"}

Expected == IF op = "Cookies" THEN "expected cookies"
            ELSE "expected query-string or map"

C2_NullAndAbsencePassthrough ==
    (op \in {"Cookies", "Headers", "Query"}
        /\ (input.value = None \/ input.value = Some(VNull))) =>
        output = Annotated(None, input.meta)

\* C2 witness: Query::from_value passed a Null with a non-empty meta through.
C2_Witness ==
    /\ op = "Query"
    /\ input = Annotated(Some(VNull), PriorMeta)
    /\ output = Annotated(None, PriorMeta)

\* C3: header normalization is idempotent:
\* normalize_header(normalize_header(s)) = normalize_header(s) for every s.
C3_NormalizeIdempotent ==
    Normalized => normalize_header(output) = output

\* C3 witness: a name with a dash that normalization changed.
C3_Witness ==
    /\ Normalized
    /\ InputString = <<"-", "a", "-">>
    /\ output = <<"-", "A", "-">>

\* C4 as stated: normalize_header equals the reference, and the number AND
\* positions of '-' in the output equal those in the input.
C4_Original ==
    Normalized =>
        /\ output = Reference(InputString)
        /\ DashPositions(output) = DashPositions(InputString)

\* C4 amended: normalize_header equals the reference (first character of each
\* segment uppercased, the others unchanged); the number of '-' and of
\* segments is that of the input and empty segments stay empty; the
\* positions of '-' are those of the input when no segment starts with a
\* character whose uppercase form is longer than one character (U+00DF
\* becomes "SS"); normalize_header("") = "", "-other-" gives "-Other-" and
\* "x-sentry" gives "X-Sentry".
C4_NormalizeReference ==
    Normalized =>
        LET s == InputString
            ins == split(s, "-")
            outs == split(output, "-")
        IN /\ output = Reference(s)
           /\ Cardinality(DashPositions(output)) = Cardinality(DashPositions(s))
           /\ Len(outs) = Len(ins)
           /\ \A i \in DOMAIN ins :
                 /\ (ins[i] = <<>>) <=> (outs[i] = <<>>)
                 /\ ins[i] # <<>> =>
                       /\ outs[i] = to_uppercase(ins[i][1]) \o Tail(ins[i])
                       /\ Tail(ins[i]) = SubSeq(outs[i], Len(outs[i]) - Len(ins[i]) + 2,
                                                Len(outs[i]))
           /\ (\A i \in DOMAIN ins : ins[i] = <<>> \/ ~Expands(ins[i][1]))
                 => DashPositions(output) = DashPositions(s)
           /\ s = <<>> => output = <<>>
           /\ s = <<"-", "o", "t", "h", "e", "r", "-">>
                 => output = <<"-", "O", "t", "h", "e", "r", "-">>
           /\ s = <<"x", "-", "s", "e", "n", "t", "r", "y">>
                 => output = <<"X", "-", "S", "e", "n", "t", "r", "y">>

\* C4 witness: a segment starting with U+00DF before a dash, so that the dash
\* moves, and an inner uppercase letter that is kept.
C4_Witness ==
    /\ Normalized
    /\ InputString = <<"sz", "-", "A">>
    /\ output = <<"S", "S", "-", "A">>

\* ------------------------------------------------------------------ Headers claims
IsInput(tag) == IsSome(input.value) /\ Unwrap(input.value).t = tag
Items == Unwrap(input.value).items
Entries == Unwrap(input.value).entries
OutMap == Unwrap(output.value)

IsPair(e) ==
    /\ IsSome(e.value)
    /\ Unwrap(e.value).t = "Array"
    /\ Len(Unwrap(e.value).items) = 2
First(e) == Unwrap(e.value).items[1]
Second(e) == Unwrap(e.value).items[2]
IsStringItem(x) == IsSome(x.value) /\ Unwrap(x.value).t = "String"
IsWrongTyped(x) == IsSome(x.value) /\ Unwrap(x.value).t \notin {"String", "Null"}
HasStringKey(e) == IsPair(e) /\ IsStringItem(First(e))
KeyOf(e) == Unwrap(First(e).value).s

\* What the claims say a string field holds after conversion of x.
ExpectedString(x) ==
    IF IsStringItem(x) THEN Annotated(Some(Unwrap(x.value).s), x.meta)
    ELSE IF IsWrongTyped(x)
    THEN Annotated(None, [x.meta EXCEPT
                            !.errors = Append(@, Err("expected a string", x.value)),
                            !.original_value = x.value])
    ELSE Annotated(None, x.meta)

\* The rejected elements of C6, in input order: a pair with a wrong-typed key
\* and a value as [key, value], every other value that is no pair as itself.
RejectedOf(e) ==
    IF HasStringKey(e) THEN <<>>
    ELSE IF IsPair(e)
    THEN IF IsWrongTyped(First(e)) /\ IsSome(Second(e).value)
            /\ Unwrap(Second(e).value).t # "Null"
         THEN <<AnnotatedNew(VArray(<<AnnotatedNew(Unwrap(First(e).value)),
                                      AnnotatedNew(Unwrap(Second(e).value))>>))>>
         ELSE <<>>
    ELSE IF IsSome(e.value) /\ Unwrap(e.value).t # "Null"
    THEN <<AnnotatedNew(Unwrap(e.value))>>
    ELSE <<>>
Rejected(items) == Concat([i \in DOMAIN items |-> RejectedOf(items[i])])

InvalidErrors(meta) ==
    SelectSeq(meta.errors, LAMBDA e : e.message = "invalid non-header values")

\* C5: Headers::from_value on an array: the key set is the normalized string
\* keys of the two-element pairs; the last pair of a header name in array
\* order gives its entry, whose value is the second item's string (None when
\* it is no string, then with one error "expected a string" capturing the
\* item) and whose meta is the pair's meta merged with the value's; a pair
\* with a string key is never among the rejected elements.
C5_HeadersFromPairs ==
    (op = "Headers" /\ IsInput("Array")) =>
        LET valid == {i \in DOMAIN Items : HasStringKey(Items[i])}
            name(i) == normalize_header(KeyOf(Items[i]))
            last(i) == \A j \in valid : name(j) = name(i) => j <= i
        IN /\ IsSome(output.value)
           /\ DOMAIN OutMap = {name(i) : i \in valid}
           /\ \A i \in valid :
                 last(i) =>
                    LET sv == ExpectedString(Second(Items[i]))
                        entry == OutMap[name(i)]
                    IN /\ entry = Annotated(sv.value, merge(Items[i].meta, sv.meta))
                       /\ IsWrongTyped(Second(Items[i])) =>
                            /\ entry.value = None
                            /\ entry.meta.errors
                                 = Items[i].meta.errors
                                   \o Append(Second(Items[i]).meta.errors,
                                             Err("expected a string",
                                                 Second(Items[i]).value))
           /\ (valid = DOMAIN Items) => output.meta = input.meta
           /\ \A e \in Range(InvalidErrors(output.meta)) :
                 e \notin Range(input.meta.errors) =>
                    Len(Unwrap(e.value).items) <= Cardinality(DOMAIN Items \ valid)

\* C5 witness: two pairs of one header name, the later one kept.
C5_Witness ==
    /\ op = "Headers"
    /\ input = Annotated(Some(VArray(<<Arr(<<Str(<<"A">>), Str(<<"y">>)>>),
                                       Arr(<<Str(<<"a">>), Str(<<"x">>)>>)>>)),
                         EmptyMeta)
    /\ DOMAIN OutMap = {<<"A">>}
    /\ OutMap[<<"A">>] = AnnotatedNew(<<"x">>)
    /\ output.meta = EmptyMeta

\* C6: Headers::from_value on an array always returns Some(Headers); the
\* error "invalid non-header values" is added, once, iff an element was
\* rejected, and captures the array of the rejected elements in input order;
\* with nothing rejected the container meta is the incoming meta.
C6_InvalidNonHeaderValues ==
    (op = "Headers" /\ IsInput("Array")) =>
        LET bad == Rejected(Items)
        IN /\ IsSome(output.value)
           /\ bad = <<>> => output.meta = input.meta
           /\ bad # <<>> =>
                /\ output.meta.errors
                     = Append(input.meta.errors,
                              Err("invalid non-header values", Some(VArray(bad))))
                /\ output.meta.remarks = input.meta.remarks
                /\ output.meta.original_length = input.meta.original_length
           /\ Len(InvalidErrors(output.meta))
                = Len(InvalidErrors(input.meta)) + (IF bad = <<>> THEN 0 ELSE 1)
           /\ Items = HdrExample =>
                output.meta.errors[Len(output.meta.errors)].value
                  = Some(VArray(<<Arr(<<I64(1), I64(2)>>),
                                  Arr(<<Str(<<"a">>), Str(<<"b">>), Str(<<"c">>)>>),
                                  I64(23)>>))

\* C6 witness: the mixed array of the test, with its three rejected elements.
C6_Witness ==
    /\ op = "Headers"
    /\ IsInput("Array")
    /\ Items = HdrExample
    /\ Len(Rejected(Items)) = 3
    /\ Len(InvalidErrors(output.meta)) = 1
    /\ DOMAIN OutMap = {<<"A", "c", "c", "e", "p", "t">>,
                        <<"W", "h", "a", "t", "e", "v", "e", "r">>}

\* C7: Headers::from_value on an object returns Some(Headers) with the
\* container meta unchanged; the key set is the normalized input keys; under
\* a name that one input key alone normalizes to, a string value is kept
\* with its meta, a null value gives None with its meta, any other value
\* gives None with one error "expected a string" capturing it.
C7_HeadersFromObject ==
    (op = "Headers" /\ IsInput("Object")) =>
        /\ IsSome(output.value)
        /\ output.meta = input.meta
        /\ DOMAIN OutMap = {normalize_header(Entries[i].k) : i \in DOMAIN Entries}
        /\ \A i \in DOMAIN Entries :
              (\A j \in DOMAIN Entries :
                  normalize_header(Entries[j].k) = normalize_header(Entries[i].k)
                     => j = i)
              => LET entry == OutMap[normalize_header(Entries[i].k)]
                     v == Entries[i].v
                 IN /\ entry = ExpectedString(v)
                    /\ IsStringItem(v) => entry = Annotated(Some(Unwrap(v.value).s), v.meta)
                    /\ IsWrongTyped(v) =>
                         /\ entry.value = None
                         /\ entry.meta.errors
                              = Append(v.meta.errors, Err("expected a string", v.value))

\* C7 witness: a wrong-typed value under a key that normalization changes.
C7_Witness ==
    /\ op = "Headers"
    /\ IsInput("Object")
    /\ Entries = <<Entry(<<"x", "-", "y">>, I64(42)), Entry(<<"a">>, Str(<<"v">>))>>
    /\ DOMAIN OutMap = {<<"X", "-", "Y">>, <<"A">>}
    /\ OutMap[<<"X", "-", "Y">>].value = None
    /\ Len(OutMap[<<"X", "-", "Y">>].meta.errors) = 1
    /\ OutMap[<<"A">>] = AnnotatedNew(<<"v">>)
    /\ output.meta = input.meta

\* ------------------------------------------------------------------ Cookies claims
Segments == split(InputString, ";")
IsBlank(segment) == \A i \in DOMAIN segment : segment[i] \in Whitespace
Parsed(i) == Cookie_parse_encoded(Segments[i])
Failing == {i \in DOMAIN Segments : ~IsBlank(Segments[i]) /\ ~Parsed(i).ok}
Succeeding == {i \in DOMAIN Segments : ~IsBlank(Segments[i]) /\ Parsed(i).ok}

\* The errors of the failing segments, in segment order.
RECURSIVE SegmentErrors(_)
SegmentErrors(i) ==
    IF i > Len(Segments) THEN <<>>
    ELSE (IF i \in Failing THEN <<Err(Parsed(i).err, Some(VString(Segments[i])))>>
          ELSE <<>>)
         \o SegmentErrors(i + 1)

\* C8: Cookies::from_value on a string always returns Some(Cookies); blank
\* segments give neither an entry nor an error; every other segment gives
\* an entry name -> value with empty meta, or one error capturing the raw
\* segment; the errors added are those of the failing segments, in order,
\* after the incoming ones; a failing segment does not stop the parse.
C8_CookiesFromString ==
    (op = "Cookies" /\ IsInput("String")) =>
        /\ IsSome(output.value)
        /\ output.meta.errors = input.meta.errors \o SegmentErrors(1)
        /\ Len(output.meta.errors) = Len(input.meta.errors) + Cardinality(Failing)
        /\ output.meta.remarks = input.meta.remarks
        /\ output.meta.original_length = input.meta.original_length
        /\ DOMAIN OutMap = {Parsed(i).name : i \in Succeeding}
        /\ \A i \in Succeeding :
              (\A j \in Succeeding : Parsed(j).name = Parsed(i).name => j <= i)
              => OutMap[Parsed(i).name] = AnnotatedNew(Parsed(i).value)

\* C8 witness: a segment without '=' fails, the segment after it is parsed,
\* and the error the meta came with is still there.
C8_Witness ==
    /\ op = "Cookies"
    /\ input = Annotated(Some(VString(<<"a", "b", ";", " ", "a", "=", "1", " ">>)),
                         PriorMeta)
    /\ OutMap = (<<"a">> :> AnnotatedNew(<<"1">>))
    /\ output.meta.errors
         = <<Err("prior error", Some(VI64(7))),
             Err(MissingPair, Some(VString(<<"a", "b">>)))>>

\* ------------------------------------------------------------------ Query claims
Stripped == IF InputString # <<>> /\ InputString[1] = "?"
            THEN SubSeq(InputString, 2, Len(InputString))
            ELSE InputString
Pairs == form_urlencoded_parse(Stripped)
Foo == <<"f", "o", "o">>
Bar == <<"b", "a", "r">>

\* C9: Query::from_value on a string strips one leading '?' (a second one
\* stays in the first key), parses the rest as pairs separated by '&', and
\* returns Some(Query) with the incoming meta and entries of empty meta;
\* "foo=bar" and "?foo=bar" give the same map; of a repeated key the last
\* value is kept.
C9_QueryFromString ==
    (op = "Query" /\ IsInput("String")) =>
        /\ IsSome(output.value)
        /\ output.meta = input.meta
        /\ DOMAIN OutMap = {Pairs[i][1] : i \in DOMAIN Pairs}
        /\ \A i \in DOMAIN Pairs :
              (\A j \in DOMAIN Pairs : Pairs[j][1] = Pairs[i][1] => j <= i)
              => OutMap[Pairs[i][1]] = AnnotatedNew(Pairs[i][2])
        /\ \A k \in DOMAIN OutMap : OutMap[k].meta = EmptyMeta
        /\ InputString \in {Foo \o <<"=">> \o Bar, <<"?">> \o Foo \o <<"=">> \o Bar}
              => OutMap = (Foo :> AnnotatedNew(Bar))
        /\ (Len(InputString) >= 3 /\ SubSeq(InputString, 1, 3) = <<"?", "?", "a">>)
              => \E k \in DOMAIN OutMap : k # <<>> /\ k[1] = "?"

\* C9 witness: one '?' stripped and a key that occurs twice.
C9_Witness ==
    /\ op = "Query"
    /\ input = Annotated(Some(VString(<<"?", "a", "=", "b", "&", "a", "=", "c">>)),
                         PriorMeta)
    /\ OutMap = (<<"a">> :> AnnotatedNew(<<"c">>))
    /\ output.meta = PriorMeta

\* C10: Query::from_value on an object returns Some(Query) with the
\* container meta unchanged and one entry per input key: a string is kept
\* with its meta, null gives None with its meta, an array or object gives
\* its compact JSON text with the entry's meta and no error, any other
\* scalar gives None with one error "expected a string" capturing it.
C10_QueryFromObject ==
    (op = "Query" /\ IsInput("Object")) =>
        /\ IsSome(output.value)
        /\ output.meta = input.meta
        /\ DOMAIN OutMap = {Entries[i].k : i \in DOMAIN Entries}
        /\ Cardinality(DOMAIN OutMap) = Len(Entries)
        /\ \A i \in DOMAIN Entries :
              LET v == Entries[i].v
                  entry == OutMap[Entries[i].k]
                  tag == Unwrap(v.value).t
              IN /\ ~IsSome(v.value) => entry = Annotated(None, v.meta)
                 /\ IsSome(v.value) =>
                      /\ tag = "String" => entry = Annotated(Some(Unwrap(v.value).s), v.meta)
                      /\ tag = "Null" => entry = Annotated(None, v.meta)
                      /\ tag \in {"Array", "Object"} =>
                            entry = Annotated(Some(to_json_string(v)), v.meta)
                      /\ tag \in {"Bool", "I64", "U64", "F64"} =>
                            /\ entry.value = None
                            /\ entry.meta.errors
                                 = Append(v.meta.errors,
                                          Err("expected a string", v.value))
                            /\ entry.meta.remarks = v.meta.remarks
                            /\ entry.meta.original_length = v.meta.original_length
                 /\ v = Obj(<<Entry(<<"a">>, I64(42))>>) =>
                      entry = AnnotatedNew(<<"{", "\"", "a", "\"", ":", "4", "2", "}">>)
                 /\ v = Annotated(Some(VArray(<<I64(1), Str(<<"x", "\"">>),
                                                AnnotatedNew(VNull)>>)), RemarkMeta) =>
                      entry = Annotated(Some(<<"[", "1", ",", "\"", "x", "\\", "\"", "\"",
                                               ",", "n", "u", "l", "l", "]">>),
                                        RemarkMeta)

\* C10 witness: the legacy nested object of the test.
C10_Witness ==
    /\ op = "Query"
    /\ IsInput("Object")
    /\ Entries = <<Entry(Foo, Str(Bar)),
                   Entry(<<"b", "a", "z">>, Obj(<<Entry(<<"a">>, I64(42))>>))>>
    /\ OutMap = (Foo :> AnnotatedNew(Bar)
                 @@ <<"b", "a", "z">> :>
                      AnnotatedNew(<<"{", "\"", "a", "\"", ":", "4", "2", "}">>))

\* ------------------------------------------------------------------ Array elements of Headers
\* An item whose original can be put back: it has a value other than null,
\* or its meta carries an original value.
Recoverable(x) ==
    \/ IsSome(x.value) /\ Unwrap(x.value).t # "Null"
    \/ IsSome(x.meta.original_value)

\* An element that leaves no trace: no header name and nothing to put back.
Untraceable(e) ==
    IF IsPair(e)
    THEN /\ ~IsStringItem(First(e))
         /\ ~(Recoverable(First(e)) /\ Recoverable(Second(e)))
    ELSE ~Recoverable(e)

Inserted(items) == Cardinality({i \in DOMAIN items : HasStringKey(items[i])})
Untraced(items) == Cardinality({i \in DOMAIN items : Untraceable(items[i])})
Captured(meta) ==
    IF InvalidErrors(meta) = <<>> THEN <<>>
    ELSE Unwrap(InvalidErrors(meta)[1].value).items

\* C14 as stated: every element of an array input either contributes a header
\* entry or is recorded in the captured value of the "invalid non-header
\* values" error, so the entries contributed plus the rejected items recorded
\* count the length of the input array.
C14_Original ==
    (op = "Headers" /\ IsInput("Array")) =>
        Inserted(Items) + Len(Captured(output.meta)) = Len(Items)

\* C14, amended: every element with a string key contributes an entry under
\* its normalized name, every other element whose original can be put back is
\* recorded in the captured value, and an element with nothing to put back (a
\* null element, a pair with a null key, a pair with a wrong-typed key and a
\* null value) is dropped without a trace: entries contributed plus rejected
\* items recorded count the length of the array less the dropped elements.
C14_RecoverableElementsKept ==
    (op = "Headers" /\ IsInput("Array")) =>
        /\ IsSome(output.value)
        /\ \A i \in DOMAIN Items :
              HasStringKey(Items[i]) =>
                  normalize_header(KeyOf(Items[i])) \in DOMAIN OutMap
        /\ Inserted(Items) + Len(Captured(output.meta))
              = Len(Items) - Untraced(Items)
        /\ (Untraced(Items) = Len(Items)) => output.meta = input.meta

C14_Witness ==
    /\ op = "Headers"
    /\ IsInput("Array")
    /\ Inserted(Items) = 1
    /\ Len(Captured(output.meta)) = 1
    /\ Untraced(Items) = 1

\* ------------------------------------------------------------------ Round trip of the containers
ReadBack == op \in {"Headers::from_value", "Cookies::from_value", "Query::from_value"}
Container == Unwrap(input.value)
AllSuccessful(map) ==
    \A k \in DOMAIN map : IsSome(map[k].value) /\ map[k].meta = EmptyMeta

\* A header name that normalize_header leaves alone: no segment starts with
\* a character that has another uppercase form.
IsCanonical(k) ==
    \A i \in DOMAIN k : (i = 1 \/ k[i - 1] = "-") => to_uppercase(k[i]) = <<k[i]>>

\* C11 as stated: for every Headers, Cookies or Query with empty meta whose
\* entries are all successful strings with empty meta, from_value(to_value(c))
\* equals the original Annotated value.
C11_Original ==
    (ReadBack /\ input.meta = EmptyMeta /\ AllSuccessful(Container)) =>
        output = input

\* C11, amended: the round trip gives back the original for every such
\* Cookies and Query, and for every such Headers whose names are all in
\* normalized form; reading back normalizes the names of a Headers.
C11_RoundTrip ==
    (ReadBack /\ input.meta = EmptyMeta /\ AllSuccessful(Container)) =>
        /\ op \in {"Cookies::from_value", "Query::from_value"} => output = input
        /\ (op = "Headers::from_value" /\ \A k \in DOMAIN Container : IsCanonical(k))
              => output = input
        /\ op = "Headers::from_value" =>
              /\ IsSome(output.value)
              /\ output.meta = EmptyMeta
              /\ DOMAIN Unwrap(output.value)
                    = {normalize_header(k) : k \in DOMAIN Container}

C11_Witness ==
    /\ op = "Headers::from_value"
    /\ Cardinality(DOMAIN Container) = 2
    /\ \A k \in DOMAIN Container : IsCanonical(k)
    /\ output = input

\* ------------------------------------------------------------------ Records
\* The fields of the records with their JSON names, as the schema lists them.
RequestSchema ==
    {[name |-> "url", key |-> <<"u", "r", "l">>],
     [name |-> "method", key |-> <<"m", "e", "t", "h", "o", "d">>],
     [name |-> "data", key |-> <<"d", "a", "t", "a">>],
     [name |-> "query_string", key |-> <<"q", "u", "e", "r", "y", "_", "s", "t", "r", "i", "n", "g">>],
     [name |-> "fragment", key |-> <<"f", "r", "a", "g", "m", "e", "n", "t">>],
     [name |-> "cookies", key |-> <<"c", "o", "o", "k", "i", "e", "s">>],
     [name |-> "headers", key |-> <<"h", "e", "a", "d", "e", "r", "s">>],
     [name |-> "env", key |-> <<"e", "n", "v">>],
     [name |-> "inferred_content_type", key |-> <<"i", "n", "f", "e", "r", "r", "e", "d", "_", "c", "o", "n", "t", "e", "n", "t", "_", "t", "y", "p", "e">>]}
FrameSchema ==
    {[name |-> "function", key |-> <<"f", "u", "n", "c", "t", "i", "o", "n">>],
     [name |-> "symbol", key |-> <<"s", "y", "m", "b", "o", "l">>],
     [name |-> "module", key |-> <<"m", "o", "d", "u", "l", "e">>],
     [name |-> "package", key |-> <<"p", "a", "c", "k", "a", "g", "e">>],
     [name |-> "filename", key |-> <<"f", "i", "l", "e", "n", "a", "m", "e">>],
     [name |-> "abs_path", key |-> <<"a", "b", "s", "_", "p", "a", "t", "h">>],
     [name |-> "line", key |-> <<"l", "i", "n", "e", "n", "o">>],
     [name |-> "column", key |-> <<"c", "o", "l", "n", "o">>],
     [name |-> "pre_lines", key |-> <<"p", "r", "e", "_", "c", "o", "n", "t", "e", "x", "t">>],
     [name |-> "current_line", key |-> <<"c", "o", "n", "t", "e", "x", "t", "_", "l", "i", "n", "e">>],
     [name |-> "post_lines", key |-> <<"p", "o", "s", "t", "_", "c", "o", "n", "t", "e", "x", "t">>],
     [name |-> "in_app", key |-> <<"i", "n", "_", "a", "p", "p">>],
     [name |-> "vars", key |-> <<"v", "a", "r", "s">>],
     [name |-> "image_addr", key |-> <<"i", "m", "a", "g", "e", "_", "a", "d", "d", "r">>],
     [name |-> "instruction_addr", key |-> <<"i", "n", "s", "t", "r", "u", "c", "t", "i", "o", "n", "_", "a", "d", "d", "r">>],
     [name |-> "symbol_addr", key |-> <<"s", "y", "m", "b", "o", "l", "_", "a", "d", "d", "r">>],
     [name |-> "trust", key |-> <<"t", "r", "u", "s", "t">>]}
StacktraceSchema ==
    {[name |-> "frames", key |-> <<"f", "r", "a", "m", "e", "s">>],
     [name |-> "registers", key |-> <<"r", "e", "g", "i", "s", "t", "e", "r", "s">>]}
Schema(record) ==
    CASE record = "Request" -> RequestSchema
      [] record = "Frame" -> FrameSchema
      [] record = "Stacktrace" -> StacktraceSchema

IsRecordOp == op \in {"Request", "Frame", "Stacktrace"}
HasKey(key) == \E i \in DOMAIN Entries : Entries[i].k = key
OutRecord == Unwrap(output.value)
ValueRequired ==
    Annotated(None, [EmptyMeta EXCEPT !.errors = <<Err("value required", None)>>])
KeyFrames == <<"f", "r", "a", "m", "e", "s">>
KeyRegisters == <<"r", "e", "g", "i", "s", "t", "e", "r", "s">>

\* C12 as stated: for Request, Frame and Stacktrace, from_value of an object
\* gives Some(record), and every declared field whose JSON key is absent from
\* the object is Annotated(None, empty meta).
C12_Original ==
    (IsRecordOp /\ IsInput("Object")) =>
        /\ IsSome(output.value)
        /\ \A f \in Schema(op) :
              ~HasKey(f.key) => OutRecord.fields[f.name] = Annotated(None, EmptyMeta)

\* C12, amended: the same for every declared field but the required one,
\* frames of Stacktrace, which without its key is Annotated(None, meta) with
\* the single error "value required".
C12_AbsentFields ==
    (IsRecordOp /\ IsInput("Object")) =>
        /\ IsSome(output.value)
        /\ \A f \in Schema(op) :
              ~HasKey(f.key) =>
                  OutRecord.fields[f.name]
                    = IF op = "Stacktrace" /\ f.name = "frames" THEN ValueRequired
                      ELSE Annotated(None, EmptyMeta)

C12_Witness ==
    /\ op = "Frame"
    /\ IsInput("Object")
    /\ HasKey(<<"f", "u", "n", "c", "t", "i", "o", "n">>)
    /\ HasKey(<<"l", "i", "n", "e">>)
    /\ IsSome(OutRecord.fields["function"].value)
    /\ OutRecord.fields["line"] = Annotated(None, EmptyMeta)

\* C13: Stacktrace::from_value of an object without the key "frames" gives
\* Some(Stacktrace) whose frames is Annotated(None, meta) with exactly the one
\* error "value required" and no original value; registers without its key is
\* Annotated(None, empty) and other holds nothing but the unknown keys, so for
\* {} it is empty; with a non-empty frames array there is no such error.
C13_FramesRequired ==
    (op = "Stacktrace" /\ IsInput("Object")) =>
        /\ IsSome(output.value)
        /\ output.meta = input.meta
        /\ ~HasKey(KeyFrames) =>
              /\ OutRecord.fields["frames"].value = None
              /\ OutRecord.fields["frames"].meta.errors = <<Err("value required", None)>>
              /\ OutRecord.fields["frames"].meta.original_value = None
              /\ ~HasKey(KeyRegisters) =>
                    OutRecord.fields["registers"] = Annotated(None, EmptyMeta)
              /\ DOMAIN OutRecord.other
                    = {Entries[i].k : i \in DOMAIN Entries} \ {KeyRegisters}
        /\ \A i \in DOMAIN Entries :
              (/\ Entries[i].k = KeyFrames
               /\ IsSome(Entries[i].v.value)
               /\ Unwrap(Entries[i].v.value).t = "Array"
               /\ Unwrap(Entries[i].v.value).items # <<>>) =>
                  /\ OutRecord.fields["frames"].meta.errors = <<>>
                  /\ IsSome(OutRecord.fields["frames"].value)
                  /\ Len(Unwrap(OutRecord.fields["frames"].value))
                       = Len(Unwrap(Entries[i].v.value).items)

C13_Witness ==
    /\ op = "Stacktrace"
    /\ input = Obj(<<>>)
    /\ OutRecord.fields["frames"] = ValueRequired
    /\ OutRecord.fields["registers"] = Annotated(None, EmptyMeta)
    /\ OutRecord.other = EmptyMap

====
